---- MODULE Spec2Model ----
(***************************************************************************)
(* Model of the streaming codec layer of the dataset library: the Entry    *)
(* Reader / Writer contract, the format dispatcher and the statistics      *)
(* aggregator (dsio/stats/stats.go) that decorates an Entry Reader.        *)
(*                                                                         *)
(* Numbers: TLC integers are 32 bit, so the platform word (64 bit) and the *)
(* float64 mantissa (53 bit) are scaled down to WordBits and MantBits.     *)
(* A float64 is modelled by its (integral) value; Float64 rounds an        *)
(* integer to the nearest representable value, ties to even, as the Go     *)
(* conversion float64(x) does.                                             *)
(***************************************************************************)
EXTENDS Integers, Sequences, FiniteSets, TLC

\* ------------------------------------------------------------------ bounds
WordBits == 4
MantBits == 2
MaxEntries == 2
MaxCalls == 3
MaxCloses == 1
MaxAssigns == 1

\* ------------------------------------------------------------- arithmetic
RECURSIVE Pow2(_)
Pow2(n) == IF n <= 0 THEN 1 ELSE 2 * Pow2(n - 1)

RECURSIVE BitLen(_)
BitLen(n) == IF n <= 0 THEN 0 ELSE 1 + BitLen(n \div 2)

Abs(x) == IF x < 0 THEN -x ELSE x

Max2(a, b) == IF a > b THEN a ELSE b

\* stats.go:153-155
maxUint == Pow2(WordBits) - 1
maxInt == maxUint \div 2
minInt == -maxInt - 1

\* float64(x): exact while x fits the mantissa, else rounded to the nearest
\* multiple of the unit in the last place, ties to the even multiple.
Float64(x) ==
  LET a == Abs(x)
      q == Pow2(BitLen(a) - MantBits)
      lo == (a \div q) * q
      r == a - lo
      up == IF 2 * r > q THEN TRUE
            ELSE IF 2 * r < q THEN FALSE
            ELSE ((a \div q) % 2) = 1
      m == IF up THEN lo + q ELSE lo
  IN IF x < 0 THEN -m ELSE m

\* ------------------------------------------------------------------ values
\* Entry.Value is interface{}: nil, bool, int, float64, string,
\* map[string]interface{}, []interface{}, or any other runtime type.
VNull == [k |-> "null"]
VBool(b) == [k |-> "bool", b |-> b]
VInt(n) == [k |-> "int", n |-> n]
VFloat(n) == [k |-> "float", n |-> n]
VStr(s) == [k |-> "string", s |-> s]
VOther == [k |-> "other"]
VMap(m) == [k |-> "map", m |-> m]
VArr(a) == [k |-> "array", a |-> a]

BigFloat == 2 * (maxInt + 1)

IntVals == {1, maxInt}
FloatVals == {Float64(3), BigFloat}
StrVals == {"a", "aa"}

Scalars ==
  {VNull, VOther} \cup {VBool(b) : b \in BOOLEAN} \cup {VInt(n) : n \in IntVals}
    \cup {VFloat(n) : n \in FloatVals} \cup {VStr(s) : s \in StrVals}

\* values nested inside a composite entry
Inner == {VNull, VBool(TRUE), VInt(1), VStr("a")}

Keys == {"n", "m"}

Maps ==
  {VMap([key \in {"n"} |-> v]) : v \in Inner \cup {VFloat(BigFloat)}}
    \cup {VMap([key \in Keys |-> IF key = "n" THEN VInt(maxInt) ELSE VNull])}

Arrs ==
  {VArr(<<>>)} \cup {VArr(<<v>>) : v \in Inner}
    \cup {VArr(<<VInt(1), VStr("aa")>>), VArr(<<VOther, VBool(FALSE)>>)}

Values == Scalars \cup Maps \cup Arrs

\* the values of the streams read in the lifecycle specification
LifeValues ==
  {VNull, VInt(1), VStr("a"), VMap([key \in {"n"} |-> VInt(1)]), VArr(<<VInt(1)>>)}
LifeRows == {VArr(<<VInt(1)>>), VArr(<<VStr("a"), VNull>>)}

\* ------------------------------------------------------- statistics nodes
Nil == [typ |-> "nil"]

\* stats.go:70-87
newStatGenerator(val) ==
  CASE val.k = "float" ->
         [typ |-> "numeric", ntyp |-> "number", count |-> 0,
          max |-> Float64(minInt), min |-> Float64(maxInt)]
    [] val.k = "int" ->
         [typ |-> "numeric", ntyp |-> "integer", count |-> 0,
          max |-> Float64(minInt), min |-> Float64(maxInt)]
    [] val.k = "string" ->
         [typ |-> "string", count |-> 0, maxLength |-> minInt, minLength |-> maxInt]
    [] val.k = "bool" ->
         [typ |-> "bool", count |-> 0, trueCount |-> 0, falseCount |-> 0]
    [] val.k = "map" -> [typ |-> "object", children |-> <<>>]
    [] val.k = "array" -> [typ |-> "array", children |-> <<>>]
    [] OTHER -> [typ |-> "null", count |-> 0]

\* faulty variant: the value is counted before its type is looked at
numericAddEntryCountFirst(nsg, val) ==
  IF val.k \notin {"int", "float"} THEN [nsg EXCEPT !.count = @ + 1]
  ELSE LET v == IF val.k = "int" THEN Float64(val.n) ELSE val.n
       IN [nsg EXCEPT !.count = @ + 1,
                      !.max = IF v > @ THEN v ELSE @,
                      !.min = IF v < @ THEN v ELSE @]

\* stats.go:164-184
numericAddEntry(nsg, val) ==
  IF val.k \notin {"int", "float"} THEN nsg
  ELSE LET v == IF val.k = "int" THEN Float64(val.n) ELSE val.n
       IN [nsg EXCEPT !.count = @ + 1,
                      !.max = IF v > @ THEN v ELSE @,
                      !.min = IF v < @ THEN v ELSE @]

\* stats.go:209-219
stringAddEntry(ssg, val) ==
  IF val.k # "string" THEN ssg
  ELSE [ssg EXCEPT !.count = @ + 1,
                   !.minLength = IF Len(val.s) < @ THEN Len(val.s) ELSE @,
                   !.maxLength = IF Len(val.s) > @ THEN Len(val.s) ELSE @]

\* stats.go:244-253
boolAddEntry(bsg, val) ==
  IF val.k # "bool" THEN bsg
  ELSE [bsg EXCEPT !.count = @ + 1,
                   !.trueCount = IF val.b THEN @ + 1 ELSE @,
                   !.falseCount = IF val.b THEN @ ELSE @ + 1]

\* stats.go:271-275
nullAddEntry(nsg, val) ==
  IF val.k = "null" THEN [nsg EXCEPT !.count = @ + 1] ELSE nsg

RECURSIVE AddEntry(_, _)

\* stats.go:93-102
objectAddEntry(osg, val) ==
  IF val.k # "map" THEN osg
  ELSE [osg EXCEPT !.children =
          [key \in (DOMAIN osg.children) \cup (DOMAIN val.m) |->
             IF key \in DOMAIN val.m
               THEN AddEntry(IF key \in DOMAIN osg.children
                               THEN osg.children[key]
                               ELSE newStatGenerator(val.m[key]),
                             val.m[key])
               ELSE osg.children[key]]]

\* faulty variant: the children are cut to the length of the value at hand
arrayAddEntryTruncates(asg, val) ==
  IF val.k # "array" THEN asg
  ELSE [asg EXCEPT !.children =
          [i \in 1..Len(val.a) |->
             AddEntry(IF i <= Len(asg.children)
                        THEN asg.children[i]
                        ELSE newStatGenerator(val.a[i]),
                      val.a[i])]]

\* stats.go:125-134
arrayAddEntry(asg, val) ==
  IF val.k # "array" THEN asg
  ELSE [asg EXCEPT !.children =
          [i \in 1..Max2(Len(asg.children), Len(val.a)) |->
             IF i <= Len(val.a)
               THEN AddEntry(IF i <= Len(asg.children)
                               THEN asg.children[i]
                               ELSE newStatGenerator(val.a[i]),
                             val.a[i])
               ELSE asg.children[i]]]

\* the statGenerator interface's AddEntry, dispatched on the node's variant
AddEntry(node, val) ==
  CASE node.typ = "numeric" -> numericAddEntry(node, val)
    [] node.typ = "string" -> stringAddEntry(node, val)
    [] node.typ = "bool" -> boolAddEntry(node, val)
    [] node.typ = "null" -> nullAddEntry(node, val)
    [] node.typ = "object" -> objectAddEntry(node, val)
    [] node.typ = "array" -> arrayAddEntry(node, val)

\* stats.go:186-197
numericStats(nsg) ==
  IF nsg.count = 0 THEN [count |-> 0]
  ELSE [count |-> nsg.count, min |-> nsg.min, max |-> nsg.max]

\* faulty variant: the minimum length is left out of the summary
stringStatsNoMin(ssg) ==
  IF ssg.count = 0 THEN [count |-> 0]
  ELSE [count |-> ssg.count, maxLength |-> ssg.maxLength]

\* stats.go:221-232
stringStats(ssg) ==
  IF ssg.count = 0 THEN [count |-> 0]
  ELSE [count |-> ssg.count, minLength |-> ssg.minLength, maxLength |-> ssg.maxLength]

\* stats.go:255-261
boolStats(bsg) ==
  [count |-> bsg.count, trueCount |-> bsg.trueCount, falseCount |-> bsg.falseCount]

\* stats.go:276-278
nullStats(nsg) == [count |-> nsg.count]

RECURSIVE StatsOf(_)
\* the Stats interface's Stats(), dispatched on the node's variant
\* (object: stats.go:104-110, array: stats.go:136-142)
StatsOf(node) ==
  CASE node.typ = "numeric" -> numericStats(node)
    [] node.typ = "string" -> stringStats(node)
    [] node.typ = "bool" -> boolStats(node)
    [] node.typ = "null" -> nullStats(node)
    [] node.typ = "object" ->
         [key \in DOMAIN node.children |-> StatsOf(node.children[key])]
    [] node.typ = "array" ->
         [i \in 1..Len(node.children) |-> StatsOf(node.children[i])]

RECURSIVE NodeCloses(_)
\* statGenerator.Close: the number of nodes closed by closing `node`
\* (every variant's Close returns nil, so no loop returns early)
NodeCloses(node) ==
  CASE node.typ \in {"numeric", "string", "bool", "null"} -> 1
    [] node.typ = "object" ->
         LET ks == DOMAIN node.children
             RECURSIVE SumK(_)
             SumK(S) == IF S = {} THEN 0
                        ELSE LET key == CHOOSE x \in S : TRUE
                             IN NodeCloses(node.children[key]) + SumK(S \ {key})
         IN 1 + SumK(ks)
    [] node.typ = "array" ->
         LET RECURSIVE SumI(_)
             SumI(i) == IF i = 0 THEN 0 ELSE NodeCloses(node.children[i]) + SumI(i - 1)
         IN 1 + SumI(Len(node.children))

\* ------------------------------------------------------ Structure, Entry
Formats == {"", "csv", "json", "cbor", "xlsx"}
Recognized == {"csv", "json", "cbor"}

\* column types a delimited-text schema declares, in column order
ColumnSets == {<<>>, <<"integer", "string">>}

\* dataset.Structure as the codec sees it: the format, the schema's top
\* level type and (delimited text) its declared column types
Structures ==
  {[Format |-> f, tlt |-> t, cols |-> <<>>] : f \in Formats, t \in {"array", "object"}}
WriterStructures ==
  Structures \cup {[Format |-> "csv", tlt |-> "array", cols |-> c] : c \in ColumnSets}
NoStructure == [Format |-> "", tlt |-> "array", cols |-> <<>>]

\* vals/complex.go:4-14
Entry(i, key, v) == [Index |-> i, Key |-> key, Value |-> v]
ZeroEntry == Entry(0, "", VNull)

EntryKeys == <<"a", "b", "c", "d", "e", "f", "g", "h">>

EOF == "EOF"
ErrNoFormat == "structure must have a data format"
ErrFormat == "invalid format"
ErrSchema == "invalid schema"
ErrClosed == "closed"
ErrQuote == "malformed quoting"
ErrKey == "key required"
ErrValue == "unsupported value"
ErrIO == "io"
FatalErrs == {"parse", ErrIO}

\* ------------------------------------------------------------ the codecs
Digits == <<"0", "1", "2", "3", "4", "5", "6", "7", "8", "9">>
IntText(n) == IF n \in 0..9 THEN Digits[n + 1] ELSE "?"
\* -1 when the text is no number
ParseInt(t) == IF \E n \in 0..9 : Digits[n + 1] = t
                 THEN CHOOSE n \in 0..9 : Digits[n + 1] = t
                 ELSE -1

IsScalar(v) == v.k \in {"null", "bool", "int", "float", "string"}

\* delimited text, write (spec section 4.4): the text of one field
CellText(v) ==
  CASE v.k = "null" -> ""
    [] v.k = "bool" -> IF v.b THEN "true" ELSE "false"
    [] v.k = "int" -> IntText(v.n)
    [] v.k = "float" -> IntText(v.n)
    [] v.k = "string" -> v.s

\* faulty variant: integer columns are not coerced
CoerceNoInteger(text, typ) ==
  CASE typ = "number" /\ ParseInt(text) >= 0 -> VFloat(Float64(ParseInt(text)))
    [] typ = "boolean" /\ text \in {"true", "false"} -> VBool(text = "true")
    [] OTHER -> VStr(text)

\* delimited text, read (spec section 4.3): a field's text coerced to the
\* column's declared type; no declared type, or a failed coercion, keeps
\* the string
Coerce(text, typ) ==
  CASE typ = "integer" /\ ParseInt(text) >= 0 -> VInt(ParseInt(text))
    [] typ = "number" /\ ParseInt(text) >= 0 -> VFloat(Float64(ParseInt(text)))
    [] typ = "boolean" /\ text \in {"true", "false"} -> VBool(text = "true")
    [] OTHER -> VStr(text)

CSVEncode(v) == [cells |-> [i \in 1..Len(v.a) |-> CellText(v.a[i])]]

CSVDecode(enc, cols) ==
  VArr([i \in 1..Len(enc.cells) |->
          Coerce(enc.cells[i], IF i <= Len(cols) THEN cols[i] ELSE "")])

RECURSIVE JSONEncode(_)
\* JSON (spec section 4.5): composite values are written whole
JSONEncode(v) ==
  CASE v.k = "null" -> [j |-> "lit", text |-> "null"]
    [] v.k = "bool" -> [j |-> "lit", text |-> IF v.b THEN "true" ELSE "false"]
    [] v.k = "int" -> [j |-> "num", text |-> IntText(v.n), frac |-> FALSE]
    [] v.k = "float" -> [j |-> "num", text |-> IntText(v.n), frac |-> TRUE]
    [] v.k = "string" -> [j |-> "str", text |-> v.s]
    [] v.k = "array" -> [j |-> "arr", items |-> [i \in 1..Len(v.a) |-> JSONEncode(v.a[i])]]
    [] v.k = "map" -> [j |-> "obj", members |-> [key \in DOMAIN v.m |-> JSONEncode(v.m[key])]]

RECURSIVE JSONDecode(_)
JSONDecode(t) ==
  CASE t.j = "lit" /\ t.text = "null" -> VNull
    [] t.j = "lit" /\ t.text # "null" -> VBool(t.text = "true")
    [] t.j = "num" /\ t.frac -> VFloat(Float64(ParseInt(t.text)))
    [] t.j = "num" /\ ~t.frac -> VInt(ParseInt(t.text))
    [] t.j = "str" -> VStr(t.text)
    [] t.j = "arr" -> VArr([i \in 1..Len(t.items) |-> JSONDecode(t.items[i])])
    [] t.j = "obj" -> VMap([key \in DOMAIN t.members |-> JSONDecode(t.members[key])])

RECURSIVE CBOREncode(_)
\* compact binary (spec section 4.6): major type and argument of each item
CBOREncode(v) ==
  CASE v.k = "null" -> [mt |-> 7, ai |-> 22]
    [] v.k = "bool" -> [mt |-> 7, ai |-> IF v.b THEN 21 ELSE 20]
    [] v.k = "int" /\ v.n >= 0 -> [mt |-> 0, arg |-> v.n]
    [] v.k = "int" /\ v.n < 0 -> [mt |-> 1, arg |-> -1 - v.n]
    [] v.k = "float" -> [mt |-> 7, ai |-> 27, f |-> v.n]
    [] v.k = "string" -> [mt |-> 3, s |-> v.s]
    [] v.k = "array" -> [mt |-> 4, items |-> [i \in 1..Len(v.a) |-> CBOREncode(v.a[i])]]
    [] v.k = "map" -> [mt |-> 5, members |-> [key \in DOMAIN v.m |-> CBOREncode(v.m[key])]]

RECURSIVE CBORDecode(_)
CBORDecode(t) ==
  CASE t.mt = 7 /\ t.ai = 22 -> VNull
    [] t.mt = 7 /\ t.ai \in {20, 21} -> VBool(t.ai = 21)
    [] t.mt = 7 /\ t.ai = 27 -> VFloat(t.f)
    [] t.mt = 0 -> VInt(t.arg)
    [] t.mt = 1 -> VInt(-1 - t.arg)
    [] t.mt = 3 -> VStr(t.s)
    [] t.mt = 4 -> VArr([i \in 1..Len(t.items) |-> CBORDecode(t.items[i])])
    [] t.mt = 5 -> VMap([key \in DOMAIN t.members |-> CBORDecode(t.members[key])])

\* what a Writer of the format can serialize: a delimited-text entry is a
\* row of scalar fields
Supported(st, v) ==
  IF st.Format = "csv"
    THEN v.k = "array" /\ \A i \in 1..Len(v.a) : IsScalar(v.a[i])
    ELSE v.k # "other"

\* one entry as it stands in the sink: the index is the position, the key
\* is written for an object top level only
EncodeEntry(st, e) ==
  [key |-> IF st.tlt = "object" THEN e.Key ELSE "",
   body |-> CASE st.Format = "csv" -> CSVEncode(e.Value)
              [] st.Format = "json" -> JSONEncode(e.Value)
              [] OTHER -> CBOREncode(e.Value)]

DecodeItem(st, enc) ==
  [t |-> "val", key |-> enc.key, e |-> "",
   v |-> CASE st.Format = "csv" -> CSVDecode(enc.body, st.cols)
           [] st.Format = "json" -> JSONDecode(enc.body)
           [] OTHER -> CBORDecode(enc.body)]

\* --------------------------------------------------- Entry Reader / Writer
\* State machine of spec section 4.1: Unopened -> Streaming -> Closed,
\* Streaming -> Errored -> Closed.
NoReader ==
  [state |-> "Unopened", st |-> NoStructure, src |-> "", len |-> 0, pos |-> 0,
   rowsRead |-> 0, eof |-> FALSE, err |-> "", reads |-> 0, closes |-> 0]

NoWriter ==
  [state |-> "Unopened", st |-> NoStructure, sink |-> <<>>, offered |-> <<>>,
   wrote |-> <<>>, err |-> "", done |-> FALSE, writes |-> 0, closes |-> 0]

\* faulty variant: every non-empty format is taken to name a codec
DispatchErrAnyFormat(st) ==
  IF st.Format = "" THEN ErrNoFormat
  ELSE IF st.Format = "csv" /\ st.tlt # "array" THEN ErrSchema
  ELSE ""

\* faulty variant: the format is looked up before it is checked for being empty
DispatchErrLookupFirst(st) ==
  IF st.Format \notin Recognized THEN ErrFormat
  ELSE IF st.Format = "csv" /\ st.tlt # "array" THEN ErrSchema
  ELSE ""

\* the dispatcher's checks, shared by NewEntryReader and NewEntryWriter
\* (spec section 4.2; delimited text needs an array top level, section 4.3)
DispatchErr(st) ==
  IF st.Format = "" THEN ErrNoFormat
  ELSE IF st.Format \notin Recognized THEN ErrFormat
  ELSE IF st.Format = "csv" /\ st.tlt # "array" THEN ErrSchema
  ELSE ""

\* NewEntryReader (spec section 4.2) over a stream of n items
NewReader(st, src, n) ==
  IF DispatchErr(st) # "" THEN [r |-> NoReader, err |-> DispatchErr(st)]
  ELSE [r |-> [NoReader EXCEPT !.state = "Streaming", !.st = st, !.src = src,
                               !.len = n],
        err |-> ""]

\* NewEntryWriter (spec section 4.2)
NewWriter(st) ==
  IF DispatchErr(st) # "" THEN [w |-> NoWriter, err |-> DispatchErr(st)]
  ELSE [w |-> [NoWriter EXCEPT !.state = "Streaming", !.st = st], err |-> ""]

NoItem == [t |-> "none", key |-> "", e |-> "", v |-> VNull]

\* what the next physical item of an arbitrary stream can be: a value, the
\* end of the stream, a fault that ends the reading, or (delimited text) a
\* row with bad quoting
Items(r) ==
  {[t |-> "end", key |-> "", e |-> "", v |-> VNull]} \cup
  {[t |-> "val", key |-> EntryKeys[r.rowsRead + 1], e |-> "", v |-> v] :
     v \in (IF r.src = "rich" THEN Values
            ELSE IF r.st.Format = "csv" THEN LifeRows ELSE LifeValues)}
    \cup (IF r.src = "rich" THEN {}
          ELSE {[t |-> "fatal", key |-> "", e |-> e, v |-> VNull] : e \in FatalErrs})
    \cup (IF r.st.Format = "csv"
            THEN {[t |-> "quote", key |-> "", e |-> ErrQuote, v |-> VNull]}
            ELSE {})

\* faulty variant: a row with bad quoting ends the reading like any other
\* parse error
ReaderReadEntryQuoteFatal(r, item) ==
  LET r1 == [r EXCEPT !.reads = @ + 1] IN
  IF r.eof THEN [r |-> r1, ent |-> ZeroEntry, err |-> EOF]
  ELSE IF r.state = "Errored" \/ (r.state = "Closed" /\ r.err # "")
    THEN [r |-> r1, ent |-> ZeroEntry, err |-> r.err]
  ELSE IF r.state = "Closed" THEN [r |-> r1, ent |-> ZeroEntry, err |-> ErrClosed]
  ELSE IF r.pos = r.len \/ item.t = "end"
    THEN [r |-> [r1 EXCEPT !.eof = TRUE], ent |-> ZeroEntry, err |-> EOF]
  ELSE IF item.t \in {"fatal", "quote"}
    THEN [r |-> [r1 EXCEPT !.state = "Errored", !.err = item.e, !.pos = @ + 1],
          ent |-> ZeroEntry, err |-> item.e]
  ELSE [r |-> [r1 EXCEPT !.pos = @ + 1, !.rowsRead = @ + 1],
        ent |-> IF r.st.tlt = "array"
                  THEN Entry(r.rowsRead, "", item.v)
                  ELSE Entry(0, item.key, item.v),
        err |-> ""]

\* Reader.ReadEntry (spec sections 4.1, 4.3, 7): r is the reader, item the
\* next physical item of its stream (looked at only while streaming).
ReaderReadEntry(r, item) ==
  LET r1 == [r EXCEPT !.reads = @ + 1] IN
  IF r.eof THEN [r |-> r1, ent |-> ZeroEntry, err |-> EOF]
  ELSE IF r.state = "Errored" \/ (r.state = "Closed" /\ r.err # "")
    THEN [r |-> r1, ent |-> ZeroEntry, err |-> r.err]
  ELSE IF r.state = "Closed" THEN [r |-> r1, ent |-> ZeroEntry, err |-> ErrClosed]
  ELSE IF r.pos = r.len \/ item.t = "end"
    THEN [r |-> [r1 EXCEPT !.eof = TRUE], ent |-> ZeroEntry, err |-> EOF]
  ELSE IF item.t = "fatal"
    THEN [r |-> [r1 EXCEPT !.state = "Errored", !.err = item.e, !.pos = @ + 1],
          ent |-> ZeroEntry, err |-> item.e]
  ELSE IF item.t = "quote"
    THEN [r |-> [r1 EXCEPT !.pos = @ + 1], ent |-> ZeroEntry, err |-> item.e]
  ELSE [r |-> [r1 EXCEPT !.pos = @ + 1, !.rowsRead = @ + 1],
        ent |-> IF r.st.tlt = "array"
                  THEN Entry(r.rowsRead, "", item.v)
                  ELSE Entry(0, item.key, item.v),
        err |-> ""]

\* Reader.Close (spec section 4.1): releases the stream, returns the
\* buffered error first encountered.
ReaderClose(r) ==
  [r |-> [r EXCEPT !.state = "Closed", !.closes = @ + 1], err |-> r.err]

\* Writer.WriteEntry (spec sections 4.1, 4.4-4.6, 7): fault says whether the
\* sink fails on this call
WriterWriteEntry(w, e, fault) ==
  LET w1 == [w EXCEPT !.writes = @ + 1, !.offered = Append(@, e)]
      fail(msg) == [w |-> [w1 EXCEPT !.state = "Errored", !.err = msg], err |-> msg]
  IN
  IF w.state = "Errored" \/ (w.state = "Closed" /\ w.err # "")
    THEN [w |-> w1, err |-> w.err]
  ELSE IF w.state = "Closed" THEN [w |-> w1, err |-> ErrClosed]
  ELSE IF fault THEN fail(ErrIO)
  ELSE IF w.st.tlt = "object" /\ e.Key = "" THEN fail(ErrKey)
  ELSE IF ~Supported(w.st, e.Value) THEN fail(ErrValue)
  ELSE [w |-> [w1 EXCEPT !.sink = Append(@, EncodeEntry(w.st, e)),
                         !.wrote = Append(@, e)],
        err |-> ""]

\* Writer.Close (spec section 4.1): finalizes the container and flushes
WriterClose(w) ==
  [w |-> [w EXCEPT !.state = "Closed", !.closes = @ + 1,
                   !.done = @ \/ w.state = "Streaming"],
   err |-> w.err]

\* -------------------------------------------------- statistics aggregator
\* stats.go:27-30: the generator starts without a root node
NoBsg == [made |-> FALSE, stats |-> Nil]

\* stats.go:9-23
NewBasicStatsGenerator(r) == [made |-> TRUE, stats |-> Nil]

\* faulty variant: end-of-stream is not treated as an error
BsgReadEntrySwallowEOF(b, r, item) ==
  LET out == ReaderReadEntry(r, item) IN
  IF out.err # "" /\ out.err # EOF
    THEN [b |-> b, r |-> out.r, ent |-> out.ent, err |-> out.err,
          inner |-> [ent |-> out.ent, err |-> out.err]]
    ELSE LET s0 == IF b.stats = Nil THEN newStatGenerator(out.ent.Value) ELSE b.stats
         IN [b |-> [b EXCEPT !.stats = AddEntry(s0, out.ent.Value)],
             r |-> out.r, ent |-> out.ent, err |-> "",
             inner |-> [ent |-> out.ent, err |-> out.err]]

\* faulty variant: only end-of-stream is passed on, other errors are dropped
BsgReadEntryOnlyEOF(b, r, item) ==
  LET out == ReaderReadEntry(r, item) IN
  IF out.err = EOF
    THEN [b |-> b, r |-> out.r, ent |-> out.ent, err |-> out.err,
          inner |-> [ent |-> out.ent, err |-> out.err]]
    ELSE LET s0 == IF b.stats = Nil THEN newStatGenerator(out.ent.Value) ELSE b.stats
         IN [b |-> [b EXCEPT !.stats = AddEntry(s0, out.ent.Value)],
             r |-> out.r, ent |-> out.ent, err |-> "",
             inner |-> [ent |-> out.ent, err |-> out.err]]

\* faulty variant: the entry handed on is rebuilt from the value alone
BsgReadEntryRebuilt(b, r, item) ==
  LET out == ReaderReadEntry(r, item) IN
  IF out.err # ""
    THEN [b |-> b, r |-> out.r, ent |-> out.ent, err |-> out.err,
          inner |-> [ent |-> out.ent, err |-> out.err]]
    ELSE LET s0 == IF b.stats = Nil THEN newStatGenerator(out.ent.Value) ELSE b.stats
         IN [b |-> [b EXCEPT !.stats = AddEntry(s0, out.ent.Value)],
             r |-> out.r, ent |-> Entry(0, "", out.ent.Value), err |-> "",
             inner |-> [ent |-> out.ent, err |-> out.err]]

\* faulty variant: the root node is selected anew for an entry of another type
BsgReadEntryReselect(b, r, item) ==
  LET out == ReaderReadEntry(r, item) IN
  IF out.err # ""
    THEN [b |-> b, r |-> out.r, ent |-> out.ent, err |-> out.err,
          inner |-> [ent |-> out.ent, err |-> out.err]]
    ELSE LET fresh == newStatGenerator(out.ent.Value)
             s0 == IF b.stats = Nil \/ b.stats.typ # fresh.typ THEN fresh ELSE b.stats
         IN [b |-> [b EXCEPT !.stats = AddEntry(s0, out.ent.Value)],
             r |-> out.r, ent |-> out.ent, err |-> "",
             inner |-> [ent |-> out.ent, err |-> out.err]]

\* faulty variant: the entry is added to the tree before the error is looked at
BsgReadEntryAddFirst(b, r, item) ==
  LET out == ReaderReadEntry(r, item)
      s0 == IF b.stats = Nil THEN newStatGenerator(out.ent.Value) ELSE b.stats
      b1 == [b EXCEPT !.stats = AddEntry(s0, out.ent.Value)]
  IN [b |-> b1, r |-> out.r, ent |-> out.ent, err |-> out.err,
      inner |-> [ent |-> out.ent, err |-> out.err]]

\* stats.go:42-52: b the generator, r the wrapped reader, item its stream's
\* next item
BsgReadEntry(b, r, item) ==
  LET out == ReaderReadEntry(r, item) IN
  IF out.err # ""
    THEN [b |-> b, r |-> out.r, ent |-> out.ent, err |-> out.err,
          inner |-> [ent |-> out.ent, err |-> out.err]]
    ELSE LET s0 == IF b.stats = Nil THEN newStatGenerator(out.ent.Value) ELSE b.stats
         IN [b |-> [b EXCEPT !.stats = AddEntry(s0, out.ent.Value)],
             r |-> out.r, ent |-> out.ent, err |-> "",
             inner |-> [ent |-> out.ent, err |-> out.err]]

\* faulty variant: the nodes are closed, the wrapped reader is not
BsgCloseNodesOnly(b, r) ==
  IF b.stats = Nil
    THEN [panic |-> TRUE, r |-> r, err |-> "", nodes |-> 0]
    ELSE [panic |-> FALSE, r |-> r, err |-> "", nodes |-> NodeCloses(b.stats)]

\* stats.go:55-58: calling Close on the nil statGenerator interface panics
\* before the wrapped reader is reached
BsgClose(b, r) ==
  IF b.stats = Nil
    THEN [panic |-> TRUE, r |-> r, err |-> "", nodes |-> 0]
    ELSE LET out == ReaderClose(r)
         IN [panic |-> FALSE, r |-> out.r, err |-> out.err,
             nodes |-> NodeCloses(b.stats)]

\* stats.go:32-34: panics on the nil statGenerator interface
BsgStats(b) ==
  IF b.stats = Nil THEN [panic |-> TRUE, stats |-> <<>>]
  ELSE [panic |-> FALSE, stats |-> StatsOf(b.stats)]

\* stats.go:37-39
BsgStructure(b, r) == r.st

\* ---------------------------------------------------------------- metadata
\* no Transform and no Dataset in hand
NoTransform == [rev |-> "none"]

NoDataset == [made |-> FALSE]

\* a nil pointer, map or interface value
NilRef == [k |-> "nil"]

\* a Go map with string keys
GoMap(m) == [k |-> "map", m |-> m]

\* writing every key of map `from` into map `into` (for key, val := range)
MergeMap(into, from) ==
  GoMap([key \in (DOMAIN into.m) \cup (DOMAIN from.m) |->
           IF key \in DOMAIN from.m THEN from.m[key] ELSE into.m[key]])

\* *Structure: the fields the sources set (part_004:105-108)
StructureOf(format, schema) ==
  [k |-> "structure", Format |-> format, Schema |-> schema]

\* Structure.Assign, not among the sources: the field merge of the spec's
\* metadata object model, a non-empty field of s2 replacing the field of s
StructureAssign(s, s2) ==
  StructureOf(IF s2.Format # "" THEN s2.Format ELSE s.Format,
              IF s2.Schema # "" THEN s2.Schema ELSE s.Schema)

\* part_001:16-39, the later revision of Transform
Transform(path, qri, script, scriptPath, syntax, syntaxVersion, structure, config, resources) ==
  [rev |-> "part_001", path |-> path, Qri |-> qri, Script |-> script,
   ScriptPath |-> scriptPath, Syntax |-> syntax, SyntaxVersion |-> syntaxVersion,
   Structure |-> structure, Config |-> config, Resources |-> resources]

\* part_000:18-46, the earlier revision of Transform
TransformV0(path, kind, syntax, appVersion, data, structure, config, resources) ==
  [rev |-> "part_000", path |-> path, Kind |-> kind, Syntax |-> syntax,
   AppVersion |-> appVersion, Data |-> data, Structure |-> structure,
   Config |-> config, Resources |-> resources]

\* part_001:82-90
TransformIsEmpty(q) ==
  /\ q.ScriptPath = ""
  /\ q.Resources = NilRef
  /\ q.Syntax = ""
  /\ q.SyntaxVersion = ""
  /\ q.Structure = NilRef
  /\ q.Config = NilRef

\* part_000:59-62
TransformIsEmptyV0(q) == q.Data = "" /\ q.Resources = NilRef

\* faulty variant: the argument's Config replaces the Config of q
TransformAssignOneReplaces(q, q2) ==
  IF q2 = NilRef THEN q
  ELSE [q EXCEPT
          !.path = IF q2.path # "" THEN q2.path ELSE @,
          !.Syntax = IF q2.Syntax # "" THEN q2.Syntax ELSE @,
          !.Config = IF q2.Config # NilRef THEN q2.Config ELSE @,
          !.SyntaxVersion = IF q2.SyntaxVersion # "" THEN q2.SyntaxVersion ELSE @,
          !.Qri = IF q2.Qri # "" THEN q2.Qri ELSE @,
          !.Structure = IF q2.Structure # NilRef
                          THEN StructureAssign(IF @ = NilRef THEN StructureOf("", "") ELSE @,
                                               q2.Structure)
                          ELSE @,
          !.ScriptPath = IF q2.ScriptPath # "" THEN q2.ScriptPath ELSE @,
          !.Resources = IF q2.Resources # NilRef
                          THEN MergeMap(IF @ = NilRef THEN GoMap(<<>>) ELSE @, q2.Resources)
                          ELSE @]

\* part_001:100-142, the body of the loop for one argument
TransformAssignOne(q, q2) ==
  IF q2 = NilRef THEN q
  ELSE [q EXCEPT
          !.path = IF q2.path # "" THEN q2.path ELSE @,
          !.Syntax = IF q2.Syntax # "" THEN q2.Syntax ELSE @,
          !.Config = IF q2.Config # NilRef
                       THEN MergeMap(IF @ = NilRef THEN GoMap(<<>>) ELSE @, q2.Config)
                       ELSE @,
          !.SyntaxVersion = IF q2.SyntaxVersion # "" THEN q2.SyntaxVersion ELSE @,
          !.Qri = IF q2.Qri # "" THEN q2.Qri ELSE @,
          !.Structure = IF q2.Structure # NilRef
                          THEN StructureAssign(IF @ = NilRef THEN StructureOf("", "") ELSE @,
                                               q2.Structure)
                          ELSE @,
          !.ScriptPath = IF q2.ScriptPath # "" THEN q2.ScriptPath ELSE @,
          !.Resources = IF q2.Resources # NilRef
                          THEN MergeMap(IF @ = NilRef THEN GoMap(<<>>) ELSE @, q2.Resources)
                          ELSE @]

\* part_000:66-108, the body of the loop for one argument
TransformAssignOneV0(q, q2) ==
  IF q2 = NilRef THEN q
  ELSE [q EXCEPT
          !.path = IF q2.path # "" THEN q2.path ELSE @,
          !.Syntax = IF q2.Syntax # "" THEN q2.Syntax ELSE @,
          !.Config = IF q2.Config # NilRef
                       THEN MergeMap(IF @ = NilRef THEN GoMap(<<>>) ELSE @, q2.Config)
                       ELSE @,
          !.AppVersion = IF q2.AppVersion # "" THEN q2.AppVersion ELSE @,
          !.Kind = IF q2.Kind # "" THEN q2.Kind ELSE @,
          !.Structure = IF q2.Structure # NilRef
                          THEN StructureAssign(IF @ = NilRef THEN StructureOf("", "") ELSE @,
                                               q2.Structure)
                          ELSE @,
          !.Data = IF q2.Data # "" THEN q2.Data ELSE @,
          !.Resources = IF q2.Resources # NilRef
                          THEN MergeMap(IF @ = NilRef THEN GoMap(<<>>) ELSE @, q2.Resources)
                          ELSE @]

RECURSIVE TransformAssign(_, _)
\* part_001:98-143 and part_000:64-109: q.Assign(qs...)
TransformAssign(q, qs) ==
  IF qs = <<>> THEN q
  ELSE TransformAssign(IF q.rev = "part_001" THEN TransformAssignOne(q, Head(qs))
                                             ELSE TransformAssignOneV0(q, Head(qs)),
                       Tail(qs))

KindTransform == "qri:tf:0"

\* encoding/json with omitempty: the keys of the object written, a nil
\* pointer, a nil or empty map and an empty string being left out
OmitEmpty(fields) ==
  {key \in DOMAIN fields :
     IF key \in {"config", "resources", "structure"}
       THEN fields[key] # NilRef /\ ~(fields[key].k = "map" /\ DOMAIN fields[key].m = {})
       ELSE fields[key] # ""}

\* part_001:157-182 and part_000:123-144: a bare path string for a
\* Transform that IsEmpty and has a path, an object otherwise
TransformMarshalJSON(q) ==
  IF q.rev = "part_001"
    THEN IF q.path # "" /\ TransformIsEmpty(q)
           THEN [t |-> "string", s |-> q.path]
           ELSE LET f == [config |-> q.Config,
                          qri |-> IF q.Qri = "" THEN KindTransform ELSE q.Qri,
                          resources |-> q.Resources, scriptPath |-> q.ScriptPath,
                          structure |-> q.Structure, syntax |-> q.Syntax,
                          syntaxVersion |-> q.SyntaxVersion]
                IN [t |-> "object", o |-> [key \in OmitEmpty(f) |-> f[key]]]
    ELSE IF q.path # "" /\ TransformIsEmptyV0(q)
           THEN [t |-> "string", s |-> q.path]
           ELSE LET f == [appVersion |-> q.AppVersion, config |-> q.Config,
                          data |-> q.Data,
                          kind |-> IF q.Kind = "" THEN KindTransform ELSE q.Kind,
                          resources |-> q.Resources, structure |-> q.Structure,
                          syntax |-> q.Syntax]
                IN [t |-> "object", o |-> [key \in OmitEmpty(f) |-> f[key]]]

\* part_002:22-91: of the fields written when non-empty AccessUrl stands
\* for the strings and Author for the pointers, maps and slices
Dataset(path) ==
  [path |-> path, Timestamp |-> "", Structure |-> NilRef, Data |-> "", Length |-> 0,
   Previous |-> "", Title |-> "", AccessUrl |-> "", Author |-> NilRef,
   Description |-> "", QuerySyntax |-> "", QueryPlatform |-> "", meta |-> NilRef]

\* part_002:255-257
DatasetIsEmpty(d) ==
  /\ d.Title = "" /\ d.Description = "" /\ d.Structure = NilRef
  /\ d.Timestamp = "" /\ d.Previous = ""

\* part_002:94-99: Meta() makes the map on first use and returns it
DatasetMeta(d) ==
  LET d1 == IF d.meta = NilRef THEN [d EXCEPT !.meta = GoMap(<<>>)] ELSE d
  IN [d |-> d1, out |-> d1.meta]

\* data[key] = val
Put(m, key, val) ==
  [x \in (DOMAIN m) \cup {key} |-> IF x = key THEN val ELSE m[x]]

PutIf(cond, m, key, val) == IF cond THEN Put(m, key, val) ELSE m

\* part_002:103-191: the fields are written into the map Meta() returns,
\* which is the Dataset's own meta map, and that map is marshalled
DatasetMarshalJSON(d) ==
  IF d.path # "" /\ DatasetIsEmpty(d)
    THEN [d |-> d, out |-> [t |-> "string", s |-> d.path]]
    ELSE LET m0 == DatasetMeta(d).out.m
             m1 == PutIf(d.AccessUrl # "", m0, "accessUrl", d.AccessUrl)
             m2 == PutIf(d.Author # NilRef, m1, "author", d.Author)
             m3 == Put(m2, "data", d.Data)
             m4 == PutIf(d.Description # "", m3, "description", d.Description)
             m5 == Put(m4, "length", d.Length)
             m6 == PutIf(d.Previous # "", m5, "previous", d.Previous)
             m7 == PutIf(d.QueryPlatform # "", m6, "queryPlatform", d.QueryPlatform)
             m8 == PutIf(d.QueryPlatform # "", m7, "querySyntax", d.QuerySyntax)
             m9 == Put(m8, "structure", d.Structure)
             m10 == Put(m9, "timestamp", d.Timestamp)
             m11 == Put(m10, "title", d.Title)
         IN [d |-> [d EXCEPT !.meta = GoMap(m11)],
             out |-> [t |-> "object", o |-> m11]]

\* ------------------------------------------------------------------- state
VARIABLES
  rdr,       \* the Entry Reader
  wtr,       \* the Entry Writer and its sink
  bsg,       \* the BasicStatsGenerator wrapping rdr
  panicked,  \* a runtime panic ended the program
  res,       \* what the last call returned to the caller
  inner,     \* what the wrapped reader returned to the generator's last call
  got,       \* the entries the caller has been handed by ReadEntry, in order
  stream,    \* the input stream handed to NewEntryReader
  hist,      \* what has happened so far
  tf,        \* the Transform a caller holds
  ds         \* the Dataset a caller holds

vars == <<rdr, wtr, bsg, panicked, res, inner, got, stream, hist, tf, ds>>

Result(op, via, ent, err, out) ==
  [op |-> op, via |-> via, ent |-> ent, err |-> err, out |-> out]

\* eof: the Reader has returned end-of-stream; rErr, rFatal: the first error
\* other than end-of-stream the Reader returned, and the first that was no
\* per-row quoting error either; wErr: the first error of the Writer;
\* rClosed, wClosed: Close has been called; rPath, wPath: the states the
\* Reader and the Writer went through
NoHist ==
  [eof |-> FALSE, rErr |-> "", rFatal |-> "", wErr |-> "", rClosed |-> FALSE,
   wClosed |-> FALSE, bsgReads |-> 0, bsgCloses |-> 0, assigns |-> 0, dsCalls |-> 0,
   marshalled |-> NoDataset,
   rPath |-> <<"Unopened">>, wPath |-> <<"Unopened">>]

Path(p, state) == IF p[Len(p)] = state THEN p ELSE Append(p, state)

Init ==
  /\ rdr = NoReader
  /\ wtr = NoWriter
  /\ bsg = NoBsg
  /\ panicked = FALSE
  /\ res = Result("none", "", ZeroEntry, "", <<>>)
  /\ inner = [ent |-> ZeroEntry, err |-> "", got |-> <<>>]
  /\ got = <<>>
  /\ stream = [avail |-> 0, consumed |-> 0]
  /\ hist = NoHist
  /\ tf = NoTransform
  /\ ds = NoDataset

\* the items the reader's next ReadEntry can meet
NextItems(r) ==
  IF r.state # "Streaming" \/ r.eof \/ r.pos = r.len THEN {NoItem}
  ELSE IF r.src = "sink" THEN {DecodeItem(r.st, wtr.sink[r.pos + 1])}
  ELSE Items(r)

\* the history after a ReadEntry of the Reader that returned err and left
\* the Reader as r
ReadHist(err, r) ==
  [hist EXCEPT !.eof = @ \/ err = EOF,
               !.rErr = IF @ = "" /\ err \notin {"", EOF} THEN err ELSE @,
               !.rFatal = IF @ = "" /\ err \notin {"", EOF, ErrQuote} THEN err ELSE @,
               !.rPath = Path(@, r.state)]

\* ----------------------------------------------------------------- actions
\* dsio.NewEntryReader(st, stream) over a stream of n items
NewEntryReader ==
  /\ ~panicked /\ res.op = "none"
  /\ \E st \in Structures, n \in {0, MaxEntries} :
       LET out == NewReader(st, "any", n) IN
       /\ rdr' = out.r
       /\ stream' = [avail |-> n, consumed |-> out.r.pos]
       /\ res' = Result("NewEntryReader", "reader", ZeroEntry, out.err, st)
       /\ hist' = [hist EXCEPT !.rPath = Path(@, out.r.state)]
  /\ UNCHANGED <<wtr, bsg, panicked, inner, got, tf, ds>>

\* dsio.NewEntryWriter(st, sink)
NewEntryWriter ==
  /\ ~panicked /\ res.op = "none"
  /\ \E st \in WriterStructures :
       LET out == NewWriter(st) IN
       /\ wtr' = out.w
       /\ res' = Result("NewEntryWriter", "writer", ZeroEntry, out.err, st)
       /\ hist' = [hist EXCEPT !.wPath = Path(@, out.w.state)]
  /\ UNCHANGED <<rdr, bsg, panicked, inner, got, stream, tf, ds>>

\* dsio.NewEntryReader over the bytes a closed Writer produced, same structure
NewEntryReaderOverSink ==
  /\ ~panicked /\ wtr.state = "Closed" /\ wtr.done /\ rdr.state = "Unopened"
  /\ LET out == NewReader(wtr.st, "sink", Len(wtr.sink)) IN
       /\ rdr' = out.r
       /\ stream' = [avail |-> Len(wtr.sink), consumed |-> out.r.pos]
       /\ res' = Result("NewEntryReader", "reader", ZeroEntry, out.err, wtr.st)
       /\ hist' = [hist EXCEPT !.rPath = Path(@, out.r.state)]
  /\ UNCHANGED <<wtr, bsg, panicked, inner, got, tf, ds>>

\* stats.NewBasicStatsGenerator(r) on a freshly constructed reader
WrapReader ==
  /\ ~panicked /\ rdr.state = "Streaming" /\ ~bsg.made
  /\ rdr.reads = 0
  /\ bsg' = NewBasicStatsGenerator(rdr)
  /\ res' = Result("NewBasicStatsGenerator", "bsg", ZeroEntry, "", <<>>)
  /\ UNCHANGED <<rdr, wtr, panicked, inner, got, stream, hist, tf, ds>>

\* the caller reads from the Reader directly
ReadEntry ==
  /\ ~panicked /\ rdr.state # "Unopened" /\ ~bsg.made
  /\ rdr.reads < MaxCalls
  /\ \E item \in NextItems(rdr) :
       LET out == ReaderReadEntry(rdr, item) IN
       /\ rdr' = out.r
       /\ stream' = [stream EXCEPT !.consumed = out.r.pos]
       /\ res' = Result("ReadEntry", "reader", out.ent, out.err, <<>>)
       /\ got' = IF out.err = "" THEN Append(got, out.ent) ELSE got
       /\ hist' = ReadHist(out.err, out.r)
  /\ UNCHANGED <<wtr, bsg, panicked, inner, tf, ds>>

\* the caller closes the Reader directly
Close ==
  /\ ~panicked /\ rdr.state # "Unopened" /\ ~bsg.made
  /\ rdr.closes < MaxCloses
  /\ LET out == ReaderClose(rdr) IN
       /\ rdr' = out.r
       /\ res' = Result("Close", "reader", ZeroEntry, out.err, <<>>)
       /\ hist' = [hist EXCEPT !.rClosed = TRUE, !.rPath = Path(@, out.r.state)]
  /\ UNCHANGED <<wtr, bsg, panicked, inner, got, stream, tf, ds>>

\* BasicStatsGenerator.ReadEntry
StatsReadEntry ==
  /\ ~panicked /\ bsg.made
  /\ rdr.reads < MaxCalls
  /\ \E item \in NextItems(rdr) :
       LET out == BsgReadEntry(bsg, rdr, item) IN
       /\ bsg' = out.b
       /\ rdr' = out.r
       /\ inner' = [ent |-> out.inner.ent, err |-> out.inner.err,
                     got |-> IF out.inner.err = "" THEN Append(inner.got, out.inner.ent)
                             ELSE inner.got]
       /\ stream' = [stream EXCEPT !.consumed = out.r.pos]
       /\ res' = Result("ReadEntry", "bsg", out.ent, out.err, <<>>)
       /\ got' = IF out.err = "" THEN Append(got, out.ent) ELSE got
       /\ hist' = [ReadHist(out.inner.err, out.r) EXCEPT !.bsgReads = @ + 1]
  /\ UNCHANGED <<wtr, panicked, tf, ds>>

\* BasicStatsGenerator.Close
StatsClose ==
  /\ ~panicked /\ bsg.made
  /\ hist.bsgCloses < MaxCloses
  /\ LET out == BsgClose(bsg, rdr) IN
       /\ panicked' = out.panic
       /\ rdr' = out.r
       /\ res' = Result("Close", "bsg", ZeroEntry, out.err, out.nodes)
       /\ hist' = [hist EXCEPT !.rClosed = TRUE, !.bsgCloses = @ + 1,
                                !.rPath = Path(@, out.r.state)]
  /\ UNCHANGED <<wtr, bsg, inner, got, stream, tf, ds>>

\* BasicStatsGenerator.Stats
Stats ==
  /\ ~panicked /\ bsg.made
  /\ LET out == BsgStats(bsg) IN
       /\ panicked' = out.panic
       /\ res' = Result("Stats", "bsg", ZeroEntry, "", out.stats)
  /\ UNCHANGED <<rdr, wtr, bsg, inner, got, stream, hist, tf, ds>>

\* BasicStatsGenerator.Structure
Structure ==
  /\ ~panicked /\ bsg.made
  /\ res' = Result("Structure", "bsg", ZeroEntry, "", BsgStructure(bsg, rdr))
  /\ UNCHANGED <<rdr, wtr, bsg, panicked, inner, got, stream, hist, tf, ds>>

\* the values a caller writes
WValues ==
  {VArr(<<VInt(1), VStr("a")>>), VArr(<<VStr("a")>>),
   VArr(<<VInt(2), VArr(<<VNull>>)>>), VMap([key \in {"n"} |-> VInt(1)]),
   VFloat(Float64(3)), VNull}

\* the i-th entry of a well-formed sequence for the top level type
WellFormed(tlt, i, v) ==
  IF tlt = "array" THEN Entry(i, "", v) ELSE Entry(0, EntryKeys[i + 1], v)

\* the entries a caller may pass next: the well-formed ones, one that skips
\* an index (array) and one without a key (object)
EntryChoices(w) ==
  LET i == Len(w.offered) IN
  {WellFormed(w.st.tlt, i, v) : v \in WValues}
    \cup {IF w.st.tlt = "array" THEN Entry(i + 1, "", VArr(<<VStr("a")>>))
                                 ELSE Entry(0, "", VNull)}

\* Writer.WriteEntry
WriteEntry ==
  /\ ~panicked /\ wtr.state # "Unopened" /\ rdr.state = "Unopened"
  /\ wtr.writes < MaxEntries
  /\ \E e \in EntryChoices(wtr), fault \in BOOLEAN :
       LET out == WriterWriteEntry(wtr, e, fault) IN
       /\ wtr' = out.w
       /\ res' = Result("WriteEntry", "writer", e, out.err, <<>>)
       /\ hist' = [hist EXCEPT !.wErr = IF @ = "" THEN out.err ELSE @,
                                !.wPath = Path(@, out.w.state)]
  /\ UNCHANGED <<rdr, bsg, panicked, inner, got, stream, tf, ds>>

\* Writer.Close
CloseWriter ==
  /\ ~panicked /\ wtr.state # "Unopened" /\ rdr.state = "Unopened"
  /\ wtr.closes < MaxCloses
  /\ LET out == WriterClose(wtr) IN
       /\ wtr' = out.w
       /\ res' = Result("Close", "writer", ZeroEntry, out.err, <<>>)
       /\ hist' = [hist EXCEPT !.wClosed = TRUE, !.wPath = Path(@, out.w.state)]
  /\ UNCHANGED <<rdr, bsg, panicked, inner, got, stream, tf, ds>>

Next ==
  \/ NewEntryReader
  \/ NewEntryWriter
  \/ WrapReader
  \/ ReadEntry
  \/ Close
  \/ StatsReadEntry
  \/ StatsClose
  \/ Stats
  \/ Structure
  \/ WriteEntry
  \/ CloseWriter

Spec == Init /\ [][Next]_vars

\* The statistics tree alone: a generator over a JSON reader whose stream
\* holds every kind of value.
InitStats ==
  /\ rdr = NewReader([Format |-> "json", tlt |-> "array", cols |-> <<>>], "rich", MaxEntries).r
  /\ wtr = NoWriter
  /\ bsg = NewBasicStatsGenerator(rdr)
  /\ panicked = FALSE
  /\ res = Result("NewBasicStatsGenerator", "bsg", ZeroEntry, "", <<>>)
  /\ inner = [ent |-> ZeroEntry, err |-> "", got |-> <<>>]
  /\ got = <<>>
  /\ stream = [avail |-> MaxEntries, consumed |-> 0]
  /\ hist = NoHist
  /\ tf = NoTransform
  /\ ds = NoDataset

NextStats ==
  \/ StatsReadEntry
  \/ Stats

SpecStats == InitStats /\ [][NextStats]_vars

\* The round trip: a Writer fills a sink and is closed, then a fresh Reader
\* of the same structure reads the sink.
NextRT ==
  \/ NewEntryWriter
  \/ WriteEntry
  \/ CloseWriter
  \/ NewEntryReaderOverSink
  \/ ReadEntry
  \/ Close

SpecRT == Init /\ [][NextRT]_vars

\* -------------------------------------------------------------- properties

\* C1: NewEntryReader and NewEntryWriter, given a Structure whose format is
\* empty, fail with "structure must have a data format" at construction: no
\* reader or writer exists, nothing of the stream has been consumed and
\* nothing has been written to the sink, whatever the stream holds.
C1_EmptyFormatFailsAtConstruction ==
  (res.op \in {"NewEntryReader", "NewEntryWriter"} /\ res.out.Format = "")
    => /\ res.err = ErrNoFormat
       /\ rdr.state = "Unopened" /\ wtr.state = "Unopened"
       /\ stream.consumed = 0 /\ wtr.sink = <<>>

\* NewEntryReader has just failed on an empty format over an empty stream
C1_Witness ==
  /\ res.op = "NewEntryReader" /\ res.out.Format = ""
  /\ stream.avail = 0 /\ res.err = ErrNoFormat

\* C2: once the Reader's ReadEntry has returned end-of-stream, every later
\* ReadEntry, called directly or through the statistics generator, returns
\* end-of-stream and no entry.
C2_EndOfStreamIsTerminal ==
  (hist.eof /\ res.op = "ReadEntry") => (res.err = EOF /\ res.ent = ZeroEntry)

\* the generator has returned end-of-stream for a call made after the
\* wrapped reader had already reached it
C2_Witness ==
  /\ hist.eof /\ res.op = "ReadEntry" /\ res.via = "bsg" /\ res.err = EOF
  /\ rdr.reads >= rdr.pos + 2

AllowedPaths ==
  {<<"Unopened">>, <<"Unopened", "Streaming">>,
   <<"Unopened", "Streaming", "Closed">>,
   <<"Unopened", "Streaming", "Errored">>,
   <<"Unopened", "Streaming", "Errored", "Closed">>}

\* C4: a Reader and a Writer go through Unopened -> Streaming -> Closed or
\* Streaming -> Errored -> Closed and nothing else, a closed one stays
\* closed, and after Close has been called (on the Reader, the Writer or the
\* statistics generator) no ReadEntry or WriteEntry succeeds.
C4_ClosedIsAbsorbing ==
  /\ hist.rPath \in AllowedPaths /\ hist.wPath \in AllowedPaths
  /\ rdr.closes > 0 => rdr.state = "Closed"
  /\ wtr.closes > 0 => wtr.state = "Closed"
  /\ (hist.rClosed /\ res.op = "ReadEntry") => res.err # ""
  /\ (hist.wClosed /\ res.op = "WriteEntry") => res.err # ""

\* a ReadEntry through the generator, after the generator was closed
C4_Witness ==
  /\ hist.rClosed /\ res.op = "ReadEntry" /\ res.via = "bsg"
  /\ rdr.state = "Closed" /\ Len(got) >= 1

\* does a field value have the column's declared type
KindMatches(v, typ) ==
  CASE v.k = "int" -> typ = "integer"
    [] v.k = "float" -> typ = "number"
    [] v.k = "bool" -> typ = "boolean"
    [] v.k = "string" -> typ \in {"string", ""}
    [] OTHER -> FALSE

\* a sequence of entries the format can carry: each entry holds its position
\* (array top level) or a key (object top level); a delimited-text entry is
\* a row of scalars, each of its column's declared type
RoundTrippable(st, es) ==
  \A i \in 1..Len(es) :
    /\ es[i] = WellFormed(st.tlt, i - 1, es[i].Value)
    /\ st.Format = "csv" =>
         /\ es[i].Value.k = "array"
         /\ \A j \in 1..Len(es[i].Value.a) :
              KindMatches(es[i].Value.a[j],
                          IF j <= Len(st.cols) THEN st.cols[j] ELSE "")

C6_Transparent ==
  bsg.made =>
    /\ hist.bsgReads = rdr.reads
    /\ got = inner.got
    /\ res.op = "ReadEntry" => (res.ent = inner.ent /\ res.err = inner.err)
    /\ res.op = "Structure" => res.out = rdr.st

\* the generator has handed on an entry and then an error of the reader
C6_Witness ==
  /\ bsg.made /\ res.op = "ReadEntry" /\ res.err \in FatalErrs
  /\ Len(got) = 1 /\ hist.bsgReads = 2

\* the value a numeric node compares: an int is converted to float64
NumVal(v) == IF v.k = "int" THEN Float64(v.n) ELSE v.n

AllOf(vs, kinds) == \A i \in 1..Len(vs) : vs[i].k \in kinds

MinOf(vs) ==
  CHOOSE m \in {NumVal(vs[i]) : i \in 1..Len(vs)} :
    \A i \in 1..Len(vs) : m <= NumVal(vs[i])

MaxOf(vs) ==
  CHOOSE m \in {NumVal(vs[i]) : i \in 1..Len(vs)} :
    \A i \in 1..Len(vs) : m >= NumVal(vs[i])

\* what C7 says a field's summary is
FieldSummaryOK(vs, out) ==
  /\ AllOf(vs, {"int", "float"}) =>
       out = [count |-> Len(vs), min |-> MinOf(vs), max |-> MaxOf(vs)]
  /\ AllOf(vs, {"null"}) => out = [count |-> Len(vs)]

RootVals == [i \in 1..Len(got) |-> got[i].Value]

\* C7: after a non-empty sequence of entries, the summary of a field whose
\* values are all numeric is count = number of values, min = the smallest,
\* max = the largest, and of a field whose values are all null {count: n};
\* stated of the root and of the field n of object entries.
C7_NumericAndNullSummaries ==
  (got # <<>> /\ bsg.stats # Nil) =>
    /\ FieldSummaryOK(RootVals, StatsOf(bsg.stats))
    /\ (\A i \in 1..Len(got) : got[i].Value.k = "map" /\ "n" \in DOMAIN got[i].Value.m)
         => FieldSummaryOK([i \in 1..Len(got) |-> got[i].Value.m["n"]],
                           StatsOf(bsg.stats)["n"])

\* the variant a first value selects (stats.go:70-87)
VariantFor(v) ==
  CASE v.k \in {"int", "float"} -> "numeric"
    [] v.k = "string" -> "string"
    [] v.k = "bool" -> "bool"
    [] v.k = "map" -> "object"
    [] v.k = "array" -> "array"
    [] OTHER -> "null"

\* does the value belong to the node's variant
Belongs(node, v) ==
  CASE node.typ = "numeric" -> v.k \in {"int", "float"}
    [] node.typ = "string" -> v.k = "string"
    [] node.typ = "bool" -> v.k = "bool"
    [] node.typ = "null" -> v.k = "null"
    [] node.typ = "object" -> v.k = "map"
    [] node.typ = "array" -> v.k = "array"

RECURSIVE StepOK(_, _, _)
\* node old became node new on value v: the variant is kept, a value that
\* does not belong to it changes nothing, and so for every child
StepOK(old, new, v) ==
  /\ new.typ = old.typ
  /\ ~Belongs(old, v) => new = old
  /\ (old.typ = "object" /\ v.k = "map") =>
       /\ DOMAIN new.children = (DOMAIN old.children) \cup (DOMAIN v.m)
       /\ \A key \in DOMAIN new.children :
            IF key \notin DOMAIN v.m THEN new.children[key] = old.children[key]
            ELSE IF key \in DOMAIN old.children
              THEN StepOK(old.children[key], new.children[key], v.m[key])
              ELSE new.children[key].typ = VariantFor(v.m[key])
  /\ (old.typ = "array" /\ v.k = "array") =>
       /\ Len(new.children) = Max2(Len(old.children), Len(v.a))
       /\ \A i \in 1..Len(new.children) :
            IF i > Len(v.a) THEN new.children[i] = old.children[i]
            ELSE IF i <= Len(old.children)
              THEN StepOK(old.children[i], new.children[i], v.a[i])
              ELSE new.children[i].typ = VariantFor(v.a[i])

\* C8 as stated: a later value whose type differs from the type of the
\* first value the root node saw (int and float being different types)
\* leaves the node unchanged.
C8_OtherTypeIgnored ==
  [][(bsg.stats # Nil /\ Len(got') = Len(got) + 1
        /\ got'[Len(got')].Value.k # got[1].Value.k)
       => bsg'.stats = bsg.stats]_vars

\* C8 as amended: a node's variant (null, numeric, string, boolean, object,
\* array) is the one its first value selects and never changes, at any
\* depth; a later value that does not belong to the variant leaves the node
\* unchanged; ints and floats both belong to numeric.
C8_VariantFixed ==
  [][Len(got') = Len(got) + 1 =>
       LET v == got'[Len(got')].Value IN
       IF bsg.stats = Nil THEN bsg'.stats.typ = VariantFor(v)
       ELSE StepOK(bsg.stats, bsg'.stats, v)]_vars

\* the node of field n was seeded by an int and has then met a string
C8_Witness ==
  /\ Len(got) = 2 /\ bsg.stats # Nil /\ bsg.stats.typ = "object"
  /\ got[1].Value = VMap([key \in {"n"} |-> VInt(1)])
  /\ got[2].Value = VMap([key \in {"n"} |-> VStr("a")])
  /\ bsg.stats.children["n"].typ = "numeric"
  /\ bsg.stats.children["n"].count = 1

LeafKeys(typ) ==
  CASE typ = "numeric" -> {"count", "min", "max"}
    [] typ = "string" -> {"count", "minLength", "maxLength"}
    [] typ = "bool" -> {"count", "trueCount", "falseCount"}
    [] typ = "null" -> {"count"}

RECURSIVE SummaryOK(_, _)
\* out is the summary of node: same shape, a leaf that counted nothing is
\* {count: 0}, any other leaf has all the keys of its variant
SummaryOK(node, out) ==
  CASE node.typ = "object" ->
         /\ DOMAIN out = DOMAIN node.children
         /\ \A key \in DOMAIN out : SummaryOK(node.children[key], out[key])
    [] node.typ = "array" ->
         /\ DOMAIN out = 1..Len(node.children)
         /\ \A i \in DOMAIN out : SummaryOK(node.children[i], out[i])
    [] OTHER ->
         /\ out.count = node.count
         /\ IF node.count = 0 THEN out = [count |-> 0]
            ELSE DOMAIN out = LeafKeys(node.typ)

\* C9: in the tree Stats returns, every leaf that counted nothing reports
\* {count} alone and every other leaf reports all the keys of its variant.
C9_LeafSummaries ==
  (res.op = "Stats" /\ ~panicked) => SummaryOK(bsg.stats, res.out)

\* Stats has returned a tree with a leaf that counted nothing next to one
\* that counted
C9_Witness ==
  /\ res.op = "Stats" /\ ~panicked /\ bsg.stats.typ = "array"
  /\ Len(bsg.stats.children) = 2
  /\ bsg.stats.children[1].count = 0 /\ bsg.stats.children[2].count > 0
  /\ res.out[1] = [count |-> 0]

\* C10: Close on the statistics generator, after any reads or none, closes
\* every node, then closes the wrapped reader once and returns its result.
C10_CloseClosesReader ==
  (res.op = "Close" /\ res.via = "bsg") =>
    /\ ~panicked
    /\ rdr.closes = hist.bsgCloses /\ rdr.state = "Closed"
    /\ res.err = rdr.err
    /\ res.out = NodeCloses(bsg.stats)

\* C11: once Close has been called on the statistics generator, no later
\* ReadEntry on it changes any node of the tree, so Stats returns the same
\* summary before and after every call made after Close.
C11_ReadOnlyAfterClose ==
  [][hist.bsgCloses > 0 =>
       /\ bsg'.stats = bsg.stats
       /\ BsgStats(bsg') = BsgStats(bsg)]_vars

C11_Witness ==
  /\ hist.bsgCloses > 0 /\ ~panicked /\ bsg.stats # Nil
  /\ res.op = "ReadEntry" /\ res.via = "bsg" /\ res.err = ErrClosed

\* C12: NewEntryReader and NewEntryWriter succeed for csv, json and cbor with
\* an array top level, over an empty and over a non-empty stream, and fail
\* at construction for every non-empty format that names no codec.
C12_DispatchByFormat ==
  res.op \in {"NewEntryReader", "NewEntryWriter"} =>
    LET codec == IF res.op = "NewEntryReader" THEN rdr.state ELSE wtr.state IN
    /\ (res.out.Format \in {"csv", "json", "cbor"} /\ res.out.tlt = "array")
         => res.err = "" /\ codec = "Streaming"
    /\ res.out.Format \notin {"", "csv", "json", "cbor"}
         => /\ res.err = ErrFormat /\ codec = "Unopened"
            /\ stream.consumed = 0 /\ wtr.sink = <<>>

C12_Witness ==
  /\ res.op = "NewEntryReader" /\ res.out.Format = "xlsx"
  /\ res.err = ErrFormat /\ stream.avail = MaxEntries /\ rdr = NoReader

\* C13: in the delimited-text reader a row with malformed quoting makes only
\* the ReadEntry call for that row return an error: the error is returned
\* once, for the row just consumed, the reader goes on streaming, the
\* entries returned before are unaffected, and a later ReadEntry that meets
\* a well-formed row returns it.
C13_BadQuotingIsPerRow ==
  [][res'.op = "ReadEntry" =>
       /\ res'.err = ErrQuote =>
            /\ rdr.st.Format = "csv"
            /\ stream'.consumed = stream.consumed + 1
            /\ rdr'.state = "Streaming" /\ rdr'.err = "" /\ ~rdr'.eof
            /\ got' = got
       /\ (hist.rErr = ErrQuote /\ res'.err = "")
            => /\ stream'.consumed = stream.consumed + 1
               /\ got' = Append(got, res'.ent)
               /\ res'.ent.Value \in LifeRows]_vars

C13_Witness ==
  /\ rdr.st.Format = "csv" /\ hist.rErr = ErrQuote /\ hist.rFatal = ""
  /\ res.op = "ReadEntry" /\ res.err = "" /\ Len(got) = 1
  /\ rdr.pos = 2 /\ rdr.rowsRead = 1

\* C14: the generator selects its root node once, at the first ReadEntry
\* whose wrapped read succeeds, from the type of that entry's value; a
\* ReadEntry that fails before it selects nothing, and no later entry,
\* whatever its type, replaces the root node.
C14_RootSelectedOnce ==
  [][/\ (bsg.made /\ bsg.stats = Nil /\ bsg'.stats # Nil)
          => /\ res'.op = "ReadEntry" /\ res'.via = "bsg" /\ res'.err = ""
             /\ inner'.err = "" /\ got = <<>> /\ got' = <<res'.ent>>
             /\ bsg'.stats.typ = VariantFor(res'.ent.Value)
     /\ (bsg.made /\ bsg.stats = Nil /\ res'.op = "ReadEntry")
          => (bsg'.stats # Nil <=> inner'.err = "")
     /\ (bsg.made /\ bsg.stats # Nil)
          => bsg'.stats # Nil /\ bsg'.stats.typ = bsg.stats.typ]_vars

\* a read that failed on a badly quoted row, then the read that selected
\* the root
C14_Witness ==
  /\ bsg.made /\ hist.rErr = ErrQuote /\ hist.bsgReads = 2
  /\ res.op = "ReadEntry" /\ res.err = "" /\ Len(got) = 1
  /\ bsg.stats.typ = "array"

\* C15: a ReadEntry of the generator whose wrapped read returns an error (a
\* parse error, an I/O error, a per-row error or end-of-stream) leaves the
\* whole statistics tree as it was before the call.
C15_FailedReadKeepsTree ==
  [][(res'.op = "ReadEntry" /\ res'.via = "bsg" /\ inner'.err # "")
       => /\ bsg'.stats = bsg.stats
          /\ res'.err = inner'.err /\ got' = got]_vars

\* one entry was counted, then the wrapped read failed on a parse error
C15_Witness ==
  /\ res.op = "ReadEntry" /\ res.via = "bsg" /\ inner.err = "parse"
  /\ Len(got) = 1 /\ bsg.stats.typ = "numeric" /\ bsg.stats.count = 1

\* the values of `vals` that are maps holding `key`, reduced to their value
\* at `key`
AtKey(vals, key) ==
  LET Has(v) == v.k = "map" /\ key \in DOMAIN v.m
      sel == SelectSeq(vals, Has)
  IN [j \in 1..Len(sel) |-> sel[j].m[key]]

\* the values of `vals` that are sequences reaching position i, reduced to
\* their value at i
AtIndex(vals, i) ==
  LET Has(v) == v.k = "array" /\ Len(v.a) >= i
      sel == SelectSeq(vals, Has)
  IN [j \in 1..Len(sel) |-> sel[j].a[i]]

KeysSeen(vals) ==
  UNION {DOMAIN vals[j].m : j \in {x \in 1..Len(vals) : vals[x].k = "map"}}

GreatestLen(vals) ==
  LET S == {Len(vals[j].a) : j \in {x \in 1..Len(vals) : vals[x].k = "array"}}
  IN IF S = {} THEN 0 ELSE CHOOSE n \in S : \A m \in S : m <= n

RECURSIVE ShapeOK(_, _)
\* node has been fed the values vals, in order: an object node has one child
\* per key seen, an array node one child per position up to the greatest
\* length, each child fed the values found at its key or position; a leaf
\* counted the values of its variant
ShapeOK(node, vals) ==
  /\ node.typ = VariantFor(vals[1])
  /\ CASE node.typ = "object" ->
            /\ DOMAIN node.children = KeysSeen(vals)
            /\ \A key \in DOMAIN node.children :
                 ShapeOK(node.children[key], AtKey(vals, key))
       [] node.typ = "array" ->
            /\ Len(node.children) = GreatestLen(vals)
            /\ \A i \in 1..Len(node.children) :
                 ShapeOK(node.children[i], AtIndex(vals, i))
       [] OTHER ->
            node.count = Cardinality({j \in 1..Len(vals) : Belongs(node, vals[j])})

RECURSIVE Grown(_, _)
\* node old became node new: no child was removed or replaced
Grown(old, new) ==
  /\ new.typ = old.typ
  /\ CASE old.typ = "object" ->
            /\ DOMAIN old.children \subseteq DOMAIN new.children
            /\ \A key \in DOMAIN old.children :
                 Grown(old.children[key], new.children[key])
       [] old.typ = "array" ->
            /\ Len(old.children) <= Len(new.children)
            /\ \A i \in 1..Len(old.children) :
                 Grown(old.children[i], new.children[i])
       [] OTHER -> new.count >= old.count

\* C16: after any sequence of entries an object node has exactly one child
\* per distinct key of the maps it observed, an array node has as many
\* children as the longest sequence it observed, child i having been fed
\* exactly the values found at position i; children are only ever added,
\* never removed or replaced.
C16_ChildrenMirrorData ==
  /\ [](bsg.stats # Nil => ShapeOK(bsg.stats, [j \in 1..Len(got) |-> got[j].Value]))
  /\ [][bsg.stats # Nil => Grown(bsg.stats, bsg'.stats)]_vars

\* an array root that met a sequence of two values and then a shorter one
C16_Witness ==
  /\ Len(got) = 2 /\ bsg.stats # Nil /\ bsg.stats.typ = "array"
  /\ Len(got[1].Value.a) = 2 /\ got[2].Value.k = "array" /\ Len(got[2].Value.a) = 1
  /\ Len(bsg.stats.children) = 2 /\ bsg.stats.children[1].count = 2

\* ------------------------------------------------------- Transform, actions
Configs == {NilRef, GoMap(<<>>), GoMap([key \in {"a"} |-> "1"]),
            GoMap([key \in {"a"} |-> "2"]), GoMap([key \in {"b"} |-> "1"])}

ResourceMaps == {NilRef, GoMap([key \in {"a"} |-> "/r1"])}

StructureRefs == {NilRef, StructureOf("csv", "array"), StructureOf("json", "")}

\* Transforms with at most one field set besides the path, and two with more
Transforms ==
  LET e == Transform("", "", NilRef, "", "", "", NilRef, NilRef, NilRef) IN
  {[e EXCEPT !.path = p] : p \in {"", "/a"}}
    \cup {[e EXCEPT !.path = p, !.Qri = KindTransform] : p \in {"", "/b"}}
    \cup {[e EXCEPT !.Script = [k |-> "reader"]],
          [e EXCEPT !.ScriptPath = "/s"], [e EXCEPT !.Syntax = "sql"],
          [e EXCEPT !.SyntaxVersion = "1"],
          [e EXCEPT !.path = "/a", !.Syntax = "sql", !.Config = GoMap([key \in {"a"} |-> "1"])]}
    \cup {[e EXCEPT !.Structure = st] : st \in StructureRefs}
    \cup {[e EXCEPT !.Config = c] : c \in Configs}
    \cup {[e EXCEPT !.Resources = r] : r \in ResourceMaps}

TransformsV0 ==
  LET e == TransformV0("", "", "", "", "", NilRef, NilRef, NilRef) IN
  {[e EXCEPT !.path = p] : p \in {"", "/a"}}
    \cup {[e EXCEPT !.path = p, !.Kind = KindTransform] : p \in {"", "/b"}}
    \cup {[e EXCEPT !.Data = "/s"], [e EXCEPT !.Syntax = "sql"],
          [e EXCEPT !.path = "/a", !.Syntax = "sql"],
          [e EXCEPT !.AppVersion = "1"],
          [e EXCEPT !.path = "/a", !.Data = "/s", !.Config = GoMap([key \in {"a"} |-> "1"])]}
    \cup {[e EXCEPT !.Structure = st] : st \in StructureRefs}
    \cup {[e EXCEPT !.Config = c] : c \in Configs}
    \cup {[e EXCEPT !.Resources = r] : r \in ResourceMaps}

\* the argument lists of Assign: none, one, two, with and without nil
ArgLists(T) ==
  {<<>>} \cup {<<a>> : a \in T \cup {NilRef}}
    \cup {<<a, b>> : a \in {t \in T : t.Config # NilRef \/ t.Structure # NilRef
                                        \/ t.Syntax # "" \/ t.path = "/a"} \cup {NilRef},
                     b \in {t \in T : t.Config # NilRef \/ t.Structure # NilRef
                                        \/ t.path = "/b"} \cup {NilRef}}

InitTransform ==
  /\ rdr = NoReader
  /\ wtr = NoWriter
  /\ bsg = NoBsg
  /\ panicked = FALSE
  /\ res = Result("none", "", ZeroEntry, "", <<>>)
  /\ inner = [ent |-> ZeroEntry, err |-> "", got |-> <<>>]
  /\ got = <<>>
  /\ stream = [avail |-> 0, consumed |-> 0]
  /\ hist = NoHist
  /\ tf \in Transforms \cup TransformsV0
  /\ ds = NoDataset

\* q.IsEmpty()
IsEmpty ==
  /\ tf # NoTransform
  /\ res' = Result("IsEmpty", "transform", ZeroEntry, "",
                   IF tf.rev = "part_001" THEN TransformIsEmpty(tf)
                   ELSE TransformIsEmptyV0(tf))
  /\ UNCHANGED <<rdr, wtr, bsg, panicked, inner, got, stream, hist, tf, ds>>

\* json.Marshal(q)
MarshalTransform ==
  /\ tf # NoTransform
  /\ res' = Result("MarshalJSON", "transform", ZeroEntry, "", TransformMarshalJSON(tf))
  /\ UNCHANGED <<rdr, wtr, bsg, panicked, inner, got, stream, hist, tf, ds>>

\* q.Assign(qs...)
Assign ==
  /\ tf # NoTransform /\ hist.assigns < MaxAssigns
  /\ \E qs \in ArgLists(IF tf.rev = "part_001" THEN Transforms ELSE TransformsV0) :
       /\ tf' = TransformAssign(tf, qs)
       /\ res' = Result("Assign", "transform", ZeroEntry, "", qs)
  /\ hist' = [hist EXCEPT !.assigns = @ + 1]
  /\ UNCHANGED <<rdr, wtr, bsg, panicked, inner, got, stream, ds>>

NextTransform ==
  \/ IsEmpty
  \/ MarshalTransform
  \/ Assign

SpecTransform == InitTransform /\ [][NextTransform]_vars

\* no field of q other than the path is set (a nil map or pointer and an
\* empty string being unset)
OnlyPath(q) ==
  /\ q.Syntax = "" /\ q.Structure = NilRef /\ q.Config = NilRef /\ q.Resources = NilRef
  /\ IF q.rev = "part_001"
       THEN q.Qri = "" /\ q.ScriptPath = "" /\ q.SyntaxVersion = ""
       ELSE q.Kind = "" /\ q.Data = "" /\ q.AppVersion = ""

\* C17: Transform.IsEmpty returns true exactly when no field other than the
\* internal path is set; with any of syntax, version, kind, config,
\* structure, script or data path, resources set it returns false.
C17_IsEmptyIffOnlyPath ==
  res.op = "IsEmpty" => (res.out <=> OnlyPath(tf))

\* the fields Assign takes over as they are, in the two revisions
PlainFields(q) ==
  IF q.rev = "part_001"
    THEN {"path", "Syntax", "SyntaxVersion", "Qri", "ScriptPath"}
    ELSE {"path", "Syntax", "AppVersion", "Kind", "Data"}

\* the positions of the non-nil arguments in which field f is set
SetIn(qs, f) ==
  {i \in 1..Len(qs) :
     /\ qs[i] # NilRef
     /\ IF f \in {"Structure", "Config", "Resources", "Script"}
          THEN qs[i][f] # NilRef ELSE qs[i][f] # ""}

Last(S) == CHOOSE i \in S : \A j \in S : j <= i

\* the value at `key` after merging the maps of qs into map m0: that of the
\* last argument holding the key
MergedAt(m0, qs, f, key) ==
  LET S == {i \in SetIn(qs, f) : key \in DOMAIN qs[i][f].m}
  IN IF S = {} THEN m0.m[key] ELSE qs[Last(S)][f].m[key]

MergedKeys(m0, qs, f) ==
  (IF m0 = NilRef THEN {} ELSE DOMAIN m0.m)
    \cup UNION {DOMAIN qs[i][f].m : i \in SetIn(qs, f)}

\* field f of new is field f of old merged key by key with the arguments
MergedOK(old, qs, new, f) ==
  IF SetIn(qs, f) = {} THEN new[f] = old[f]
  ELSE /\ new[f] # NilRef
       /\ DOMAIN new[f].m = MergedKeys(old[f], qs, f)
       /\ \A key \in DOMAIN new[f].m : new[f].m[key] = MergedAt(old[f], qs, f, key)

StructureMergedOK(old, qs, new) ==
  IF SetIn(qs, "Structure") = {} THEN new.Structure = old.Structure
  ELSE /\ new.Structure # NilRef
       /\ \A g \in {"Format", "Schema"} :
            LET S == {i \in SetIn(qs, "Structure") : qs[i].Structure[g] # ""}
            IN new.Structure[g] =
                 IF S # {} THEN qs[Last(S)].Structure[g]
                 ELSE IF old.Structure = NilRef THEN "" ELSE old.Structure[g]

C19_StatsAlwaysReturns ==
  res.op = "Stats" => ~panicked

\* --------------------------------------------------------- Dataset, actions
InitDataset ==
  /\ rdr = NoReader
  /\ wtr = NoWriter
  /\ bsg = NoBsg
  /\ panicked = FALSE
  /\ res = Result("none", "", ZeroEntry, "", <<>>)
  /\ inner = [ent |-> ZeroEntry, err |-> "", got |-> <<>>]
  /\ got = <<>>
  /\ stream = [avail |-> 0, consumed |-> 0]
  /\ hist = NoHist
  /\ tf = NoTransform
  /\ ds \in {[Dataset(p) EXCEPT !.AccessUrl = u] : p \in {"", "/p"}, u \in {"", "u"}}

\* the values a caller gives the fields of a Dataset
FieldValues ==
  [Title |-> {"", "t"}, AccessUrl |-> {"", "u"}, Author |-> {NilRef, [k |-> "user"]},
   QuerySyntax |-> {"", "sql"}, QueryPlatform |-> {"", "linux"},
   Structure |-> {NilRef, StructureOf("csv", "array")}, Data |-> {"/d"},
   Length |-> {1}]

\* d.Field = value
SetField ==
  /\ ds # NoDataset /\ hist.dsCalls < MaxCalls
  /\ \E f \in DOMAIN FieldValues : \E v \in FieldValues[f] :
       /\ ds' = [ds EXCEPT ![f] = v]
       /\ res' = Result("SetField", "dataset", ZeroEntry, "", f)
  /\ hist' = [hist EXCEPT !.dsCalls = @ + 1]
  /\ UNCHANGED <<rdr, wtr, bsg, panicked, inner, got, stream, tf>>

\* d.Meta()[key] = value
SetMeta ==
  /\ ds # NoDataset /\ hist.dsCalls < MaxCalls
  /\ LET out == DatasetMeta(ds) IN
       /\ ds' = [out.d EXCEPT !.meta = GoMap(Put(out.out.m, "x", "1"))]
       /\ res' = Result("Meta", "dataset", ZeroEntry, "", out.out)
  /\ hist' = [hist EXCEPT !.dsCalls = @ + 1]
  /\ UNCHANGED <<rdr, wtr, bsg, panicked, inner, got, stream, tf>>

\* json.Marshal(d)
MarshalDataset ==
  /\ ds # NoDataset /\ hist.dsCalls < MaxCalls
  /\ LET out == DatasetMarshalJSON(ds) IN
       /\ ds' = out.d
       /\ res' = Result("MarshalJSON", "dataset", ZeroEntry, "", out.out)
  /\ hist' = [hist EXCEPT !.dsCalls = @ + 1, !.marshalled = ds]
  /\ UNCHANGED <<rdr, wtr, bsg, panicked, inner, got, stream, tf>>

NextDataset ==
  \/ SetField
  \/ SetMeta
  \/ MarshalDataset

SpecDataset == InitDataset /\ [][NextDataset]_vars

\* what Meta() returns
MetaOf(d) == IF d.meta = NilRef THEN <<>> ELSE d.meta.m

\* the keys of the fields of d that are set, a field without omitempty
\* being always written
KeysSet(d) ==
  {"data", "length", "structure", "timestamp", "title"}
    \cup (IF d.AccessUrl # "" THEN {"accessUrl"} ELSE {})
    \cup (IF d.Author # NilRef THEN {"author"} ELSE {})
    \cup (IF d.QueryPlatform # "" THEN {"queryPlatform"} ELSE {})
    \cup (IF d.QuerySyntax # "" THEN {"querySyntax"} ELSE {})

\* C20: Dataset.MarshalJSON does not change the Dataset: Meta() returns the
\* same map before and after the call, and each output holds exactly the
\* fields set at the time of the call, so a field written by an earlier
\* call and cleared since is not in it.
C20_MarshalLeavesDataset ==
  [][(res'.op = "MarshalJSON" /\ res'.via = "dataset") =>
       /\ MetaOf(ds') = MetaOf(ds)
       /\ res'.out.t = "object" =>
            DOMAIN res'.out.o = KeysSet(ds) \cup DOMAIN MetaOf(ds)]_vars

\* ------------------------------------------------- Dataset, JSON round trip
\* datastore.NewKey as part_002:201 calls it, and as the Key fields are
\* decoded: the empty string is cleaned to the root key
NewKey(s) == IF s = "" THEN "/" ELSE s

\* part_002:216-246: the keys taken out of the extra metadata
StandardKeys ==
  {"accessUrl", "author", "citations", "contributors", "data", "description",
   "downloadUrl", "homepage", "iconImage", "identifier", "image", "keywords",
   "language", "length", "license", "previous", "query", "queryEngine",
   "queryEngineConfig", "queryPlatform", "queryString", "querySyntax", "readme",
   "resources", "structure", "theme", "timestamp", "title", "version"}

\* the value decoded for a key of the document, the zero value when absent
Decoded(o, key, zero) == IF key \in DOMAIN o THEN o[key] ELSE zero

\* part_002:196-253: a string is a path reference; an object is decoded
\* into the fields by their JSON names, and what is left over is the extra
\* metadata
DatasetUnmarshalJSON(data) ==
  IF data.t = "string" THEN Dataset(NewKey(data.s))
  ELSE LET o == data.o IN
       [path |-> "",
        Timestamp |-> Decoded(o, "timestamp", ""),
        Structure |-> Decoded(o, "structure", NilRef),
        Data |-> IF "data" \in DOMAIN o THEN NewKey(o["data"]) ELSE "",
        Length |-> Decoded(o, "length", 0),
        Previous |-> IF "previous" \in DOMAIN o THEN NewKey(o["previous"]) ELSE "",
        Title |-> Decoded(o, "title", ""),
        AccessUrl |-> Decoded(o, "accessUrl", ""),
        Author |-> Decoded(o, "author", NilRef),
        Description |-> Decoded(o, "description", ""),
        QuerySyntax |-> Decoded(o, "querySyntax", ""),
        QueryPlatform |-> Decoded(o, "queryPlatform", ""),
        meta |-> GoMap([key \in (DOMAIN o) \ StandardKeys |-> o[key]])]

\* the Datasets a caller marshals
Datasets ==
  {[Dataset(p) EXCEPT !.Title = t, !.AccessUrl = u, !.Author = a, !.QuerySyntax = qs,
                      !.QueryPlatform = qp, !.Data = dt, !.Length = n, !.meta = m] :
     p \in {"", "/p"}, t \in {"", "t"}, u \in {"", "u"},
     a \in {NilRef, [k |-> "user"]}, qs \in {"", "sql"}, qp \in {"", "linux"},
     dt \in {"", "/d"}, n \in {0, 1},
     m \in {NilRef, GoMap([key \in {"x"} |-> "1"])}}

InitDatasetRT ==
  /\ rdr = NoReader
  /\ wtr = NoWriter
  /\ bsg = NoBsg
  /\ panicked = FALSE
  /\ res = Result("none", "", ZeroEntry, "", <<>>)
  /\ inner = [ent |-> ZeroEntry, err |-> "", got |-> <<>>]
  /\ got = <<>>
  /\ stream = [avail |-> 0, consumed |-> 0]
  /\ hist = NoHist
  /\ tf = NoTransform
  /\ ds \in Datasets

\* json.Unmarshal(data, d) into a fresh Dataset, data being what MarshalJSON
\* has just written
UnmarshalDataset ==
  /\ res.op = "MarshalJSON" /\ res.via = "dataset"
  /\ ds' = DatasetUnmarshalJSON(res.out)
  /\ res' = Result("UnmarshalJSON", "dataset", ZeroEntry, "", res.out)
  /\ hist' = [hist EXCEPT !.dsCalls = @ + 1]
  /\ UNCHANGED <<rdr, wtr, bsg, panicked, inner, got, stream, tf>>

NextDatasetRT ==
  \/ MarshalDataset
  \/ UnmarshalDataset

SpecDatasetRT == InitDatasetRT /\ [][NextDatasetRT]_vars

\* the serialized fields of a Dataset: all but the path and the metadata
SerializedFields ==
  {"Timestamp", "Structure", "Data", "Length", "Previous", "Title", "AccessUrl",
   "Author", "Description", "QuerySyntax", "QueryPlatform"}

\* C21: UnmarshalJSON applied to the output of d.MarshalJSON yields a
\* Dataset whose serialized fields (querySyntax, data, length and author
\* among them) and whose extra metadata equal those of d; and d is written
\* as a bare path string only when it has no field other than its path.
C21_DatasetRoundTrip ==
  LET d == hist.marshalled IN
  /\ res.op = "UnmarshalJSON" =>
       /\ \A f \in SerializedFields : ds[f] = d[f]
       /\ MetaOf(ds) = MetaOf(d)
  /\ (res.op = "MarshalJSON" /\ res.via = "dataset" /\ res.out.t = "string") =>
       /\ \A f \in SerializedFields : d[f] = Dataset("")[f]
       /\ MetaOf(d) = <<>>

====
